---- MODULE Spec2Model ----
(***************************************************************************)
(* Model of @chrismessina/raycast-logger: the redaction engine             *)
(* (maskEmail, redactString, redactValueByKey, sanitizeArgs) of            *)
(* src/src/logger.ts.  Strings are sequences of one-character strings so   *)
(* that the regular expressions and toLowerCase act on characters.         *)
(***************************************************************************)
EXTENDS Integers, Sequences, FiniteSets, TLC

\* ------------------------------------------------------------------ text

LowerLetters == <<"a","b","c","d","e","f","g","h","i","j","k","l","m",
                  "n","o","p","q","r","s","t","u","v","w","x","y","z">>
UpperLetters == <<"A","B","C","D","E","F","G","H","I","J","K","L","M",
                  "N","O","P","Q","R","S","T","U","V","W","X","Y","Z">>

Range(f) == {f[i] : i \in DOMAIN f}

Letters == Range(LowerLetters) \cup Range(UpperLetters)
Digits == {"0","1","2","3","4","5","6","7","8","9"}
WhiteSpace == {" ", "\t", "\n"}
Quotes == {"\"", "'"}

\* String.prototype.toLowerCase, one character
LowerOf ==
  [c \in Range(UpperLetters) |->
     LowerLetters[CHOOSE i \in DOMAIN UpperLetters : UpperLetters[i] = c]]

toLowerChar(c) == IF c \in DOMAIN LowerOf THEN LowerOf[c] ELSE c

\* A comparison of keys that keeps their casing
toLowerCaseOmitted(s) == s

\* String.prototype.toLowerCase
toLowerCase(s) == [i \in DOMAIN s |-> toLowerChar(s[i])]

\* Length of the longest run of characters of class C starting at s[i]
RECURSIVE RunIn(_, _, _)
RunIn(s, i, C) ==
  IF i > Len(s) \/ i < 1 THEN 0
  ELSE IF s[i] \in C THEN 1 + RunIn(s, i + 1, C) ELSE 0

\* Length of the longest run of characters outside class C starting at s[i]
RECURSIVE RunNotIn(_, _, _)
RunNotIn(s, i, C) ==
  IF i > Len(s) \/ i < 1 THEN 0
  ELSE IF s[i] \notin C THEN 1 + RunNotIn(s, i + 1, C) ELSE 0

\* The literal w (lower case) matches s at i under the regex flag i
MatchWordCI(s, i, w) ==
  /\ i >= 1
  /\ i + Len(w) - 1 <= Len(s)
  /\ \A j \in 1..Len(w) : toLowerChar(s[i + j - 1]) = w[j]

Slice(s, i, j) == IF j < i THEN << >> ELSE SubSeq(s, i, j)

Mask3 == <<"*","*","*">>
\* The password placeholder used for the 2FA class as well
Mask6AsMask3 == Mask3
\* The code placeholder written with digits
Mask6Zeros == <<"0","0","0","0","0","0">>
Mask6 == <<"*","*","*","*","*","*">>

\* ------------------------------------------------------------ maskEmail

EmailFirstClass == Letters \cup Digits \cup {".", "_", "%", "+", "-"}
EmailDomainClass == Letters \cup Digits \cup {".", "-"}
MinTldLen == 2

\* /([A-Za-z0-9._%+-])[^@\s]*(@[A-Za-z0-9.-]+\.[A-Za-z]{2,})/ tried at s[i]:
\* the position of the last character of the match, 0 when there is none.
EmailEndAt(s, i) ==
  IF i > Len(s) \/ s[i] \notin EmailFirstClass THEN 0
  ELSE
    LET at == i + 1 + RunNotIn(s, i + 1, {"@"} \cup WhiteSpace)
        dom == RunIn(s, at + 1, EmailDomainClass)
        \* dots of the domain run with a character before them and a
        \* top-level domain of two letters or more after them
        dots == {p \in (at + 2)..(at + dom) :
                   s[p] = "." /\ RunIn(s, p + 1, Letters) >= MinTldLen}
    IN IF at > Len(s) \/ s[at] # "@" \/ dots = {} THEN 0
       ELSE LET p == CHOOSE q \in dots : \A r \in dots : r <= q
            IN p + RunIn(s, p + 1, Letters)

\* The position of "@" in a match that starts at s[i]
EmailAt(s, i) == i + 1 + RunNotIn(s, i + 1, {"@"} \cup WhiteSpace)

RECURSIVE maskEmailFrom(_, _)
maskEmailFrom(s, i) ==
  IF i > Len(s) THEN << >>
  ELSE LET e == EmailEndAt(s, i)
       IN IF e > 0
          THEN <<s[i]>> \o Mask3 \o Slice(s, EmailAt(s, i), e) \o maskEmailFrom(s, e + 1)
          ELSE <<s[i]>> \o maskEmailFrom(s, i + 1)

\* redactString without the e-mail step
maskEmailOmitted(text) == text

maskEmail(text) == maskEmailFrom(text, 1)

\* ---------------------------------------------------------- redactString

W_bearer == <<"b","e","a","r","e","r">>
BearerMask == <<"B","e","a","r","e","r"," ","*","*","*">>

\* /bearer\s+[^\s"']+/gi tried at s[i]: the length of the match, 0 for none
BearerLenAt(s, i) ==
  IF ~MatchWordCI(s, i, W_bearer) THEN 0
  ELSE LET ws == RunIn(s, i + Len(W_bearer), WhiteSpace)
           tok == RunNotIn(s, i + Len(W_bearer) + ws, WhiteSpace \cup Quotes)
       IN IF ws >= 1 /\ tok >= 1 THEN Len(W_bearer) + ws + tok ELSE 0

RECURSIVE ReplaceBearer(_, _)
ReplaceBearer(s, i) ==
  IF i > Len(s) THEN << >>
  ELSE LET m == BearerLenAt(s, i)
       IN IF m > 0 THEN BearerMask \o ReplaceBearer(s, i + m)
          ELSE <<s[i]>> \o ReplaceBearer(s, i + 1)

\* The alternation without authorization
KeyValueNamesNoAuthorization ==
  << <<"p","a","s","s","w","o","r","d">>,
     <<"p","a","s","s">>,
     <<"p","w","d">>,
     <<"s","e","c","r","e","t">>,
     <<"t","o","k","e","n">>,
     <<"a","u","t","h">>,
     <<"k","e","y">> >>

\* The alternation of the key/value pattern, in the order the regex tries it
KeyValueNames ==
  << <<"p","a","s","s","w","o","r","d">>,
     <<"p","a","s","s">>,
     <<"p","w","d">>,
     <<"s","e","c","r","e","t">>,
     <<"t","o","k","e","n">>,
     <<"a","u","t","h">>,
     <<"a","u","t","h","o","r","i","z","a","t","i","o","n">>,
     <<"k","e","y">> >>

\* \s*[:=]\s*[^\s&"']+ tried at s[j]: the length of the match, 0 for none
KeyValueTailLen(s, j) ==
  LET sp1 == RunIn(s, j, WhiteSpace)
      sep == j + sp1
      sp2 == RunIn(s, sep + 1, WhiteSpace)
      val == RunNotIn(s, sep + 1 + sp2, WhiteSpace \cup Quotes \cup {"&"})
  IN IF sep <= Len(s) /\ s[sep] \in {":", "="} /\ val >= 1
     THEN sp1 + 1 + sp2 + val ELSE 0

\* The characters an alternative begins with
KeyValueFirst == {KeyValueNames[a][1] : a \in DOMAIN KeyValueNames}

\* The alternatives that give a match at s[i]
KeyValueAlts(s, i) ==
  IF toLowerChar(s[i]) \notin KeyValueFirst THEN {}
  ELSE {a \in DOMAIN KeyValueNames :
          /\ MatchWordCI(s, i, KeyValueNames[a])
          /\ KeyValueTailLen(s, i + Len(KeyValueNames[a])) > 0}

RECURSIVE ReplaceKeyValue(_, _)
ReplaceKeyValue(s, i) ==
  IF i > Len(s) THEN << >>
  ELSE LET alts == KeyValueAlts(s, i)
       IN IF alts # {}
          THEN LET a == CHOOSE x \in alts : \A y \in alts : x <= y
                   n == Len(KeyValueNames[a])
               IN Slice(s, i, i + n - 1) \o <<"=">> \o Mask3
                    \o ReplaceKeyValue(s, i + n + KeyValueTailLen(s, i + n))
          ELSE <<s[i]>> \o ReplaceKeyValue(s, i + 1)

W_code == <<"c","o","d","e">>
W_2fa == <<"2","f","a">>
W_two == <<"t","w","o">>
W_factor == <<"f","a","c","t","o","r">>
W_otp == <<"o","t","p">>
MinCodeDigits == 4
MaxCodeDigits == 8

\* (?:code|2fa|two[-\s]?factor|otp) tried at s[i]: the length of the label
CodeLabelLen(s, i) ==
  IF toLowerChar(s[i]) \notin {W_code[1], W_2fa[1], W_two[1], W_otp[1]} THEN 0
  ELSE IF MatchWordCI(s, i, W_code) THEN Len(W_code)
  ELSE IF MatchWordCI(s, i, W_2fa) THEN Len(W_2fa)
  ELSE IF MatchWordCI(s, i, W_two)
          /\ i + 3 <= Len(s) /\ s[i + 3] \in ({"-"} \cup WhiteSpace)
          /\ MatchWordCI(s, i + 4, W_factor) THEN 4 + Len(W_factor)
  ELSE IF MatchWordCI(s, i, W_two) /\ MatchWordCI(s, i + 3, W_factor)
       THEN 3 + Len(W_factor)
  ELSE IF MatchWordCI(s, i, W_otp) THEN Len(W_otp)
  ELSE 0

\* The pattern with \d{6,8}: codes of six digits and more
CodePrefixLenSixDigits(s, i) ==
  LET lab == CodeLabelLen(s, i)
      sep == RunIn(s, i + lab, {":", "="} \cup WhiteSpace)
      dig == RunIn(s, i + lab + sep, Digits)
  IN IF lab > 0 /\ sep >= 1 /\ dig >= 6 THEN lab + sep ELSE 0

\* ((?:label)\s*[:=\s]+) tried at s[i]: the length of group 1, 0 for none
CodePrefixLen(s, i) ==
  LET lab == CodeLabelLen(s, i)
      sep == RunIn(s, i + lab, {":", "="} \cup WhiteSpace)
      dig == RunIn(s, i + lab + sep, Digits)
  IN IF lab > 0 /\ sep >= 1 /\ dig >= MinCodeDigits THEN lab + sep ELSE 0

Min(a, b) == IF a <= b THEN a ELSE b
Max(a, b) == IF a >= b THEN a ELSE b

RECURSIVE ReplaceCode(_, _)
ReplaceCode(s, i) ==
  IF i > Len(s) THEN << >>
  ELSE LET p == CodePrefixLen(s, i)
       IN IF p > 0
          THEN Slice(s, i, i + p - 1) \o Mask6
                 \o ReplaceCode(s, i + p + Min(RunIn(s, i + p, Digits), MaxCodeDigits))
          ELSE <<s[i]>> \o ReplaceCode(s, i + 1)

HexClass == Digits \cup {"a","b","c","d","e","f","A","B","C","D","E","F"}
MinHexRun == 32

RECURSIVE ReplaceHex(_, _)
ReplaceHex(s, i) ==
  IF i > Len(s) THEN << >>
  ELSE LET r == RunIn(s, i, HexClass)
       IN IF r >= MinHexRun THEN Mask3 \o ReplaceHex(s, i + r)
          ELSE <<s[i]>> \o ReplaceHex(s, i + 1)

Base64Class == Letters \cup Digits \cup {"+", "/"}
MinBase64Run == 20
MaxBase64Pad == 2

RECURSIVE ReplaceBase64(_, _)
ReplaceBase64(s, i) ==
  IF i > Len(s) THEN << >>
  ELSE LET r == RunIn(s, i, Base64Class)
           pad == Min(RunIn(s, i + r, {"="}), MaxBase64Pad)
       IN IF r >= MinBase64Run THEN Mask3 \o ReplaceBase64(s, i + r + pad)
          ELSE <<s[i]>> \o ReplaceBase64(s, i + 1)

redactString(input) ==
  LET s1 == ReplaceBearer(input, 1)
      s2 == ReplaceKeyValue(s1, 1)
      s3 == ReplaceCode(s2, 1)
      s4 == ReplaceHex(s3, 1)
      s5 == ReplaceBase64(s4, 1)
  IN maskEmail(s5)

\* ---------------------------------------------------------------- values

(***************************************************************************)
(* A JavaScript value.  t is the kind: "undefined", "null", "boolean",     *)
(* "number" (finite), "nan" (NaN and the infinities), "bigint", "string",  *)
(* "object" and "array" (the fresh trees JSON.parse builds, which carry no *)
(* identity), "ref" (a reference to object n of the caller's heap) and     *)
(* "getter" (an accessor property whose getter throws when it is read).    *)
(***************************************************************************)
Val(t, n, s, keys, kids) == [t |-> t, n |-> n, s |-> s, keys |-> keys, kids |-> kids]

Undefined == Val("undefined", 0, << >>, << >>, << >>)
Null == Val("null", 0, << >>, << >>, << >>)
Bool(b) == Val("boolean", IF b THEN 1 ELSE 0, << >>, << >>, << >>)
Num(n) == Val("number", n, << >>, << >>, << >>)
NaN == Val("nan", 0, << >>, << >>, << >>)
BigInt(n) == Val("bigint", n, << >>, << >>, << >>)
Str(s) == Val("string", 0, s, << >>, << >>)
Obj(keys, kids) == Val("object", 0, << >>, keys, kids)
Arr(kids) == Val("array", 0, << >>, << >>, kids)
Ref(a) == Val("ref", a, << >>, << >>, << >>)
ThrowingGetter == Val("getter", 0, << >>, << >>, << >>)

\* The typeof operator
TypeOf(v) ==
  CASE v.t \in {"null", "object", "array", "ref"} -> "object"
    [] v.t \in {"number", "nan"} -> "number"
    [] OTHER -> v.t

\* An object of the heap: kind is "object" (a plain object), "array", or
\* "instance" (a class instance without enumerable own properties, such as
\* an Error or a Map).
Node(kind, keys, kids) == [kind |-> kind, keys |-> keys, kids |-> kids]

\* The outcome of a call: a returned value, or a thrown error e.  d is the
\* deepest nesting of redactValueByKey activations the call reached.
Ret(v, d) == [ok |-> TRUE, v |-> v, d |-> d, e |-> ""]
Throw(e, d) == [ok |-> FALSE, v |-> Undefined, d |-> d, e |-> e]

\* ---------------------------------------------------- redactValueByKey

K_password == <<"p","a","s","s","w","o","r","d">>
K_pass == <<"p","a","s","s">>
K_pwd == <<"p","w","d">>
K_secret == <<"s","e","c","r","e","t">>
K_token == <<"t","o","k","e","n">>
K_auth == <<"a","u","t","h">>
K_authorization == <<"a","u","t","h","o","r","i","z","a","t","i","o","n">>
K_applepassword == <<"a","p","p","l","e","p","a","s","s","w","o","r","d">>
K_code == <<"c","o","d","e">>
K_otp == <<"o","t","p">>
K_2fa == <<"2","f","a">>
K_twofactor == <<"t","w","o","f","a","c","t","o","r">>
K_two_factor == <<"t","w","o","_","f","a","c","t","o","r">>
K_email == <<"e","m","a","i","l">>
K_appleid == <<"a","p","p","l","e","i","d">>
K_apple_id == <<"a","p","p","l","e","_","i","d">>
K_username == <<"u","s","e","r","n","a","m","e">>
K_user == <<"u","s","e","r">>

FullMaskKeys == {K_password, K_pass, K_pwd, K_secret, K_token, K_auth,
                 K_authorization, K_applepassword}
\* The string list of line 258 cut down to the number list of line 271
CodeKeysNumericOnly == {K_code, K_otp, K_2fa}
CodeKeys == {K_code, K_otp, K_2fa, K_twofactor, K_two_factor}
IdentifierKeys == {K_email, K_appleid, K_apple_id, K_username, K_user}
\* The number list of line 271 without otp
NumericCodeKeysNoOtp == {K_code, K_2fa}
NumericCodeKeys == {K_code, K_otp, K_2fa}

\* The key JSON.stringify passes to the replacer for element i of an array
IndexDigits == <<"0","1","2","3","4","5","6","7","8","9">>
IndexKey(i) == <<IndexDigits[i]>>

RECURSIVE redactValueByKey(_, _, _, _, _)
RECURSIVE SerializeJSONProperty(_, _, _, _, _, _)
RECURSIVE SerializeMembers(_, _, _, _, _, _, _, _, _, _, _)

\* JSON.parse of what JSON.stringify returned: r is the outcome of
\* serializing the wrapper's property "".  JSON.stringify returns undefined
\* for a value it does not serialize, and JSON.parse(undefined) throws a
\* SyntaxError.
JSONParse(r) ==
  IF r.ok /\ r.v.t = "undefined" THEN Throw("SyntaxError", r.d) ELSE r

\* JSON.parse(JSON.stringify(value, (k, v) => redactValueByKey(k, v))), run
\* by activation number depth (0: by sanitizeArgs)
JSONRoundTrip(value, H, depth, lim) ==
  JSONParse(SerializeJSONProperty(<< >>, value, {}, H, depth, lim))

\* return <r> without the try/catch around it
TryCatchReturnNoCatch(r, value) == r

\* try { return <r> } catch { return value }
TryCatchReturn(r, value) == IF r.ok THEN r ELSE Ret(value, r.d)

\* Activation number depth of redactValueByKey, on a call stack with room
\* for lim nested activations: the call that does not fit throws RangeError.
redactValueByKey(key, value, H, depth, lim) ==
  IF depth > lim THEN Throw("RangeError", depth - 1)
  ELSE IF value.t \in {"null", "undefined"} THEN Ret(value, depth)
  ELSE IF TypeOf(value) = "string" THEN
    IF toLowerCase(key) \in FullMaskKeys THEN Ret(Str(Mask3), depth)
    ELSE IF toLowerCase(key) \in CodeKeys THEN Ret(Str(Mask6), depth)
    ELSE IF toLowerCase(key) \in IdentifierKeys
         THEN Ret(Str(maskEmail(value.s)), depth)
    ELSE Ret(Str(redactString(value.s)), depth)
  ELSE IF TypeOf(value) = "number" THEN
    IF toLowerCase(key) \in NumericCodeKeys THEN Ret(Num(0), depth)
    ELSE Ret(value, depth)
  ELSE IF TypeOf(value) = "object"
  THEN TryCatchReturn(JSONRoundTrip(value, H, depth, lim), value)
  ELSE Ret(value, depth)

\* The members of an object or array value v: those of the heap object for
\* a reference, its own for a tree JSON.parse built
IsArrayValue(v, H) == IF v.t = "ref" THEN H[v.n].kind = "array" ELSE v.t = "array"
KeysOf(v, H) == IF v.t = "ref" THEN H[v.n].keys ELSE v.keys
KidsOf(v, H) == IF v.t = "ref" THEN H[v.n].kids ELSE v.kids

\* SerializeJSONProperty after the replacer returned r.  stk is the set of
\* heap objects being serialized: meeting one of them again is the
\* TypeError of a circular structure.  A non-finite number is written as
\* null, a BigInt is a TypeError.
SerializeReplaced(r, stk, H, depth, lim) ==
  IF ~r.ok THEN r
  ELSE CASE r.v.t \in {"undefined", "null", "boolean", "number", "string"} -> r
         [] r.v.t = "nan" -> Ret(Null, r.d)
         [] r.v.t = "bigint" -> Throw("TypeError", r.d)
         [] r.v.t \in {"object", "array", "ref"} ->
              IF r.v.t = "ref" /\ r.v.n \in stk THEN Throw("TypeError", r.d)
              ELSE SerializeMembers(IsArrayValue(r.v, H), KeysOf(r.v, H),
                                    KidsOf(r.v, H), 1,
                                    IF r.v.t = "ref" THEN stk \cup {r.v.n} ELSE stk,
                                    H, depth, lim, << >>, << >>, r.d)

\* A replacer that drops the property key: (k, v) => redactValueByKey("", v)
SerializeJSONPropertyNoKey(key, value, stk, H, depth, lim) ==
  IF value.t = "getter" THEN Throw("Error", depth)
  ELSE SerializeReplaced(redactValueByKey(<< >>, value, H, depth + 1, lim),
                         stk, H, depth, lim)

\* SerializeJSONProperty of ECMAScript's JSON.stringify followed by
\* JSON.parse of the text, for the property key whose value has been read
\* from its holder (reading an accessor whose getter throws, throws): the
\* replacer is called first, then the value it returns is serialized.
SerializeJSONProperty(key, value, stk, H, depth, lim) ==
  IF value.t = "getter" THEN Throw("Error", depth)
  ELSE SerializeReplaced(redactValueByKey(key, value, H, depth + 1, lim),
                         stk, H, depth, lim)

\* A cycle stack whose entries stay when the member has been serialized: the
\* members after it are serialized with the member's object still on it
AppendMemberKeepsVisited(r, key, isArr, keys, kids, i, stk, H, depth, lim, accK, accV, d) ==
  IF ~r.ok THEN Throw(r.e, Max(d, r.d))
  ELSE SerializeMembers(isArr, keys, kids, i + 1,
         IF kids[i].t = "ref" THEN stk \cup {kids[i].n} ELSE stk,
         H, depth, lim,
         IF r.v.t = "undefined" \/ isArr THEN accK ELSE Append(accK, key),
         IF r.v.t # "undefined" THEN Append(accV, r.v)
         ELSE IF isArr THEN Append(accV, Null) ELSE accV,
         Max(d, r.d))

\* SerializeMembers after member i with key was serialized as r.  A member
\* serialized as undefined is left out of an object and becomes null in an
\* array.
AppendMember(r, key, isArr, keys, kids, i, stk, H, depth, lim, accK, accV, d) ==
  IF ~r.ok THEN Throw(r.e, Max(d, r.d))
  ELSE SerializeMembers(isArr, keys, kids, i + 1, stk, H, depth, lim,
         IF r.v.t = "undefined" \/ isArr THEN accK ELSE Append(accK, key),
         IF r.v.t # "undefined" THEN Append(accV, r.v)
         ELSE IF isArr THEN Append(accV, Null) ELSE accV,
         Max(d, r.d))

\* SerializeJSONObject / SerializeJSONArray from member i on; accK and accV
\* are the members serialized so far.
SerializeMembers(isArr, keys, kids, i, stk, H, depth, lim, accK, accV, d) ==
  IF i > Len(kids)
  THEN Ret(IF isArr THEN Arr(accV) ELSE Obj(accK, accV), d)
  ELSE AppendMember(
         SerializeJSONProperty(IF isArr THEN IndexKey(i) ELSE keys[i], kids[i],
                               stk, H, depth, lim),
         IF isArr THEN IndexKey(i) ELSE keys[i],
         isArr, keys, kids, i, stk, H, depth, lim, accK, accV, d)

\* ----------------------------------------------------------- sanitizeArgs

\* The callback of args.map in sanitizeArgs, for one argument
sanitizeArg(arg, H, lim) ==
  IF TypeOf(arg) = "string" THEN Ret(Str(redactString(arg.s)), 0)
  ELSE IF TypeOf(arg) = "object" /\ arg.t # "null"
  THEN TryCatchReturn(JSONRoundTrip(arg, H, 0, lim), arg)
  ELSE Ret(arg, 0)

RECURSIVE MaxDepthOf(_, _)
MaxDepthOf(rs, i) == IF i > Len(rs) THEN 0 ELSE Max(rs[i].d, MaxDepthOf(rs, i + 1))

\* Array.prototype.map over the outcomes rs of the callback: the new array
\* in v, unless a callback threw
MapResults(rs) ==
  [ok |-> \A i \in DOMAIN rs : rs[i].ok,
   v |-> [i \in DOMAIN rs |-> rs[i].v],
   d |-> MaxDepthOf(rs, 1)]

sanitizeArgs(args, H, lim) ==
  MapResults([i \in DOMAIN args |-> sanitizeArg(args[i], H, lim)])

\* ---------------------------------------------------------------- inputs

(***************************************************************************)
(* The values a caller passes.  An argument is a leaf, or an object        *)
(* {key: leaf} that may hold a second property (the hazard) which          *)
(* JSON.stringify cannot serialize or which closes a cycle, inside up to   *)
(* MaxWrap enclosing containers: {data: X} or [X, 7].                      *)
(***************************************************************************)
MaxWrap == 2
MaxStack == 2

K_data == <<"d","a","t","a">>
K_key == <<"k","e","y">>
K_apiKey == <<"a","p","i","K","e","y">>
K_apikey == <<"a","p","i","k","e","y">>
K_big == <<"b","i","g">>
K_bad == <<"b","a","d">>
K_err == <<"e","r","r">>
K_self == <<"s","e","l","f">>
K_root == <<"r","o","o","t">>
K_a == <<"a">>
K_b == <<"b">>

BaseKeys == {K_password, K_pass, K_pwd, K_secret, K_token, K_auth,
             K_authorization, K_applepassword, K_code, K_otp, K_2fa,
             K_twofactor, K_two_factor, K_email, K_appleid, K_apple_id,
             K_username, K_user, K_data, K_key, K_apiKey, K_apikey}
Casings == {"lower", "upper", "capital"}

toUpperChar(c) ==
  IF c \in Range(LowerLetters)
  THEN UpperLetters[CHOOSE i \in DOMAIN LowerLetters : LowerLetters[i] = c]
  ELSE c

Recase(k, casing) ==
  [i \in DOMAIN k |->
     IF casing = "upper" \/ (casing = "capital" /\ i = 1)
     THEN toUpperChar(k[i]) ELSE k[i]]

S_abc == <<"a","b","c">>
S_digits == <<"1","2","3","4","5","6">>
S_mail == <<"j","o","@","x",".","i","o">>
S_sk == <<"s","k","_","l","i","v","e","_","1","2","3","4","5","6">>
Strings == {S_abc, S_digits, S_mail, S_sk}
Numbers == {7, 123456}

Leaves == {Str(s) : s \in Strings} \cup {Num(n) : n \in Numbers}
            \cup {Null, Undefined, Bool(TRUE), NaN}
Hazards == {"none", "bigint", "getter", "instance", "self", "root", "shared"}
Wrappers == {"obj", "arr"}

RECURSIVE SeqsUpTo(_, _)
SeqsUpTo(S, n) ==
  IF n = 0 THEN {<< >>}
  ELSE LET shorter == SeqsUpTo(S, n - 1)
       IN shorter \cup {Append(q, x) : q \in shorter, x \in S}

Paths == SeqsUpTo(Wrappers, MaxWrap)

ArrayTail == Num(7)

\* The heap of an input: the wrappers at 1..Len(path), then the core
\* object, then the class instance a hazard refers to.  For the hazard
\* "shared" the core object is {a: X, b: X} and X, the object after it,
\* holds the leaf.
BuildHeap(path, core, key, leaf, hazard) ==
  LET w == Len(path)
      coreValue == IF core = "object" THEN Ref(w + 1) ELSE leaf
      child(i) == IF i < w THEN Ref(i + 1) ELSE coreValue
      wrappers == [i \in 1..w |->
                     IF path[i] = "obj"
                     THEN Node("object", <<K_data>>, <<child(i)>>)
                     ELSE Node("array", << >>, <<child(i), ArrayTail>>)]
      coreNode ==
        CASE hazard = "none" -> Node("object", <<key>>, <<leaf>>)
          [] hazard = "bigint" -> Node("object", <<key, K_big>>, <<leaf, BigInt(1)>>)
          [] hazard = "getter" -> Node("object", <<key, K_bad>>, <<leaf, ThrowingGetter>>)
          [] hazard = "instance" -> Node("object", <<key, K_err>>, <<leaf, Ref(w + 2)>>)
          [] hazard = "self" -> Node("object", <<key, K_self>>, <<leaf, Ref(w + 1)>>)
          [] hazard = "root" -> Node("object", <<key, K_root>>, <<leaf, Ref(1)>>)
          [] hazard = "shared" -> Node("object", <<K_a, K_b>>, <<Ref(w + 2), Ref(w + 2)>>)
  IN IF core # "object" THEN wrappers
     ELSE IF hazard = "instance"
     THEN wrappers \o <<coreNode, Node("instance", << >>, << >>)>>
     ELSE IF hazard = "shared"
     THEN wrappers \o <<coreNode, Node("object", <<key>>, <<leaf>>)>>
     ELSE Append(wrappers, coreNode)

BuildArgs(path, core, leaf) ==
  IF path = << >> /\ core # "object" THEN <<leaf>> ELSE <<Ref(1)>>

\* The keys whose strings are secrets, in the callers' words
ClaimFullMaskKeys == {K_password, K_pass, K_pwd, K_secret, K_token, K_auth,
                      K_authorization, K_applepassword}

\* The key is a word of S in one of the casings the callers use
KeyIn(key, S) == \E k \in S : \E c \in Casings : key = Recase(k, c)

\* The heap with s stored in place of every string held under such a key
WithSecret(H, s) ==
  [a \in DOMAIN H |->
     [H[a] EXCEPT !.kids =
        [i \in DOMAIN H[a].kids |->
           IF /\ H[a].kind = "object"
              /\ H[a].kids[i].t = "string"
              /\ KeyIn(H[a].keys[i], ClaimFullMaskKeys)
           THEN Str(s) ELSE H[a].kids[i]]]]

\* The strings a caller passes to redactString.  A framed text is an
\* occurrence (a key, a separator and a value; an e-mail address) between a
\* head and a tail; a paired text is two fragments, joined or a space apart.
T_value == <<"a","b","c">>
T_domain == <<"@","x",".","i","o">>
Heads == {<< >>, <<"x"," ">>, <<"<">>}
Tails == {<< >>, <<" ","y">>, <<"&","p","=","1">>}
KeyValueSeparators == {<<"=">>, <<":">>, <<":"," ">>, <<" ","="," ">>}
KeyValueCasings == {"lower", "upper", "capital"}
SensitiveNames == {K_password, K_pass, K_pwd, K_secret, K_token, K_auth,
                   K_authorization, K_key}
LocalParts == {<<"j">>, <<"j","o">>, <<"j",".","d","o","e">>}

KeyValueTexts ==
  {h \o Recase(k, c) \o sep \o T_value \o t :
     h \in Heads, k \in SensitiveNames, c \in KeyValueCasings,
     sep \in KeyValueSeparators, t \in Tails}

EmailTexts ==
  {h \o l \o T_domain \o t : h \in Heads, l \in LocalParts, t \in Tails}

T_hex == <<"0","1","2","3","4","5","6","7","8","9","a","b","c","d","e","f","0","1","2","3","4","5","6","7","8","9","A","B","C","D","E","F">>
T_base64 == <<"A","B","C","D","E","F","G","H","I","J","K","L","M","N","O","P","Q","R","S","T","=","=">>
Fragments ==
  { <<"j","o","@","x",".","i","o">>, <<"p","w","d","=","a","b","c">>, <<"T","o","k","e","n",":"," ","a","b","c">>, <<"b","e","a","r","e","r"," ","x","y","z">>,
    <<"o","t","p"," ","1","2","3","4">>, <<"c","o","d","e",":","1","2","3","4","5","6","7","8","9">>, T_hex, T_base64, T_value,
    <<"1","2","3","4">>, K_key, <<"=">>, <<"\"">>,
    <<"a","u","t","h">>, <<":">>, <<"&">>, <<"T","w","o","-","F","a","c","t","o","r",":"," ","1","2","3","4","5">>,
    <<"a",".","b","@","c">>, <<".","c","o","m">>, <<"B","E","A","R","E","R">>,
    <<"A","u","t","h","o","r","i","z","a","t","i","o","n",":">>,
    <<"B","e","a","r","e","r"," ","a","b","c","1","2","3","d","e","f","4","5","6">> }
Glue == {<< >>, <<" ">>}
PairedTexts == {a \o g \o b : a \in Fragments, g \in Glue, b \in Fragments}

\* A labelled code: a label, a separator and a run of digits
CodeLabels == {<<"c","o","d","e">>, <<"2","f","a">>, <<"o","t","p">>,
               <<"t","w","o","-","f","a","c","t","o","r">>,
               <<"t","w","o"," ","f","a","c","t","o","r">>}
CodeSeparators == {<<":">>, <<"="," ">>, <<" ">>}
T_digits == <<"1","2","3","4","5","6","7","8">>
CodeRuns == {SubSeq(T_digits, 1, n) : n \in {3, 4, 6, 8}}

CodeTexts ==
  {h \o Recase(l, c) \o sep \o d \o t :
     h \in Heads, l \in CodeLabels, c \in KeyValueCasings,
     sep \in CodeSeparators, d \in CodeRuns, t \in Tails}

Texts == KeyValueTexts \cup EmailTexts \cup PairedTexts \cup CodeTexts

\* ------------------------------------------------------------ the program

VARIABLES
  pc,       \* "idle", "returned" (sanitizeArgs has returned), "compared",
            \* "scrubbed" (redactString has returned), "rescrubbed"; for
            \* the Logger: "made" (a Logger was returned), "timing" (the
            \* caller holds a timer), "writing" and "inspecting" (a method
            \* is about to write), "logged" (the method has returned)
  heap,     \* the caller's objects: address -> Node
  args,     \* the argument array of the call
  stack,    \* the nested activations the call stack had room for
  result,   \* what sanitizeArgs(args) returned
  heap2,    \* the caller's objects at the second call
  result2,  \* what the second call returned
  loggers,  \* the Logger objects: address -> this.config
  instance, \* Logger.instance: 0 (undefined) or the address of a Logger
  ret,      \* the Logger the caller obtained last (0: none yet)
  verbose,  \* the verboseLogging preference and the switch the callers'
            \* own isVerboseEnabled reads: "on", "off", "unreadable"
  call,     \* the caller's last call of the Logger API: its name and inputs
  console,  \* what that call wrote to the console
  timer     \* the completion callback the caller holds from time()

engineVars == <<heap, args, stack, result, heap2, result2>>
loggerVars == <<loggers, instance, ret, verbose, call, console, timer>>
vars == <<pc, heap, args, stack, result, heap2, result2,
          loggers, instance, ret, verbose, call, console, timer>>

NoResult == [ok |-> TRUE, v |-> << >>, d |-> 0]
NoCall == [op |-> "none"]
NoTimer == [on |-> 0, label |-> << >>]

\* No module of the package is evaluated, no Logger exists
LoggerAtRest ==
  /\ loggers = << >>
  /\ instance = 0
  /\ ret = 0
  /\ verbose = "off"
  /\ call = NoCall
  /\ console = << >>
  /\ timer = NoTimer

Init ==
  /\ pc = "idle"
  /\ heap = << >>
  /\ args = << >>
  /\ stack = 0
  /\ result = NoResult
  /\ heap2 = << >>
  /\ result2 = NoResult
  /\ LoggerAtRest

\* A caller passes one value to sanitizeArgs
CallSanitizeArgs ==
  /\ pc = "idle"
  /\ \E path \in Paths, core \in {"leaf", "object"}, k \in BaseKeys,
        casing \in Casings, leaf \in Leaves, hazard \in Hazards,
        lim \in 1..MaxStack :
       /\ core = "leaf" => (k = K_data /\ casing = "lower" /\ hazard = "none")
       /\ hazard # "none" => casing = "lower"
       /\ heap' = BuildHeap(path, core, Recase(k, casing), leaf, hazard)
       /\ args' = BuildArgs(path, core, leaf)
       /\ stack' = lim
       /\ result' = sanitizeArgs(args', heap', lim)
  /\ pc' = "returned"
  /\ UNCHANGED <<heap2, result2>>
  /\ UNCHANGED loggerVars

\* The caller stores a different string under the fully masked keys and
\* passes the value again
CallSanitizeArgsAgain ==
  /\ pc = "returned"
  /\ \E s \in Strings :
       /\ WithSecret(heap, s) # heap
       /\ heap2' = WithSecret(heap, s)
       /\ result2' = sanitizeArgs(args, heap2', stack)
  /\ pc' = "compared"
  /\ UNCHANGED <<heap, args, stack, result>>
  /\ UNCHANGED loggerVars

\* A caller passes a string to redactString
CallRedactString ==
  /\ pc = "idle"
  /\ \E t \in Texts :
       /\ args' = <<Str(t)>>
       /\ result' = [NoResult EXCEPT !.v = <<Str(redactString(t))>>]
  /\ pc' = "scrubbed"
  /\ UNCHANGED <<heap, stack, heap2, result2>>
  /\ UNCHANGED loggerVars

\* The caller passes the string redactString returned to redactString
CallRedactStringAgain ==
  /\ pc = "scrubbed"
  /\ \E t \in {result.v[1].s} :
       result2' = [NoResult EXCEPT !.v = <<Str(redactString(t))>>]
  /\ pc' = "rescrubbed"
  /\ UNCHANGED <<heap, args, stack, result, heap2>>
  /\ UNCHANGED loggerVars

\* The caller drops the values
Discard ==
  /\ pc \in {"returned", "compared", "scrubbed", "rescrubbed"}
  /\ pc' = "idle"
  /\ heap' = << >>
  /\ args' = << >>
  /\ stack' = 0
  /\ result' = NoResult
  /\ heap2' = << >>
  /\ result2' = NoResult
  /\ UNCHANGED loggerVars

Next ==
  \/ CallSanitizeArgs
  \/ CallSanitizeArgsAgain
  \/ CallRedactString
  \/ CallRedactStringAgain
  \/ Discard

Spec == Init /\ [][Next]_vars

\* ---------------------------------------------------------------- Logger

\* The escape character \x1b
ESC == "\\x1b"

\* ANSI color codes for terminal output
colors ==
  [reset |-> <<ESC,"[","0","m">>,
   bold |-> <<ESC,"[","1","m">>,
   dim |-> <<ESC,"[","2","m">>,
   red |-> <<ESC,"[","3","1","m">>,
   yellow |-> <<ESC,"[","3","3","m">>,
   blue |-> <<ESC,"[","3","4","m">>,
   magenta |-> <<ESC,"[","3","5","m">>,
   cyan |-> <<ESC,"[","3","6","m">>,
   gray |-> <<ESC,"[","9","0","m">>]

\* An option of LoggerConfig is "unset" or holds its value ("true" and
\* "false" for the flags); isVerboseEnabled is "unset", the caller's own
\* function "custom" or the class's "defaultVerboseCheck"; an unset prefix is
\* the empty string.
EmptyConfig ==
  [isVerboseEnabled |-> "unset", prefix |-> << >>, enableRedaction |-> "unset",
   showTimestamp |-> "unset", showContext |-> "unset", colorize |-> "unset"]

\* x ?? d (and x || d for a function)
Coalesce(x, d) == IF x = "unset" THEN d ELSE x

\* new Logger(config): this.config
Logger(config) ==
  [isVerboseEnabled |-> Coalesce(config.isVerboseEnabled, "defaultVerboseCheck"),
   prefix |-> config.prefix,
   enableRedaction |-> Coalesce(config.enableRedaction, "true"),
   showTimestamp |-> Coalesce(config.showTimestamp, "false"),
   showContext |-> Coalesce(config.showContext, "false"),
   colorize |-> Coalesce(config.colorize, "true")]

\* getInstance without the test of Logger.instance
getInstanceAlwaysNew(ls, inst) ==
  [loggers |-> Append(ls, Logger(EmptyConfig)), instance |-> Len(ls) + 1]

\* Logger.getInstance(): the Logger objects and Logger.instance after the
\* call; the call returns Logger.instance
getInstance(ls, inst) ==
  IF inst = 0
  THEN [loggers |-> Append(ls, Logger(EmptyConfig)), instance |-> Len(ls) + 1]
  ELSE [loggers |-> ls, instance |-> inst]

\* child() that passes its own prefix only
childConfigOwnPrefix(cfg, prefix) == [cfg EXCEPT !.prefix = prefix]

\* child(prefix): the config object passed to the constructor
childConfig(cfg, prefix) ==
  [cfg EXCEPT !.prefix =
     IF cfg.prefix # << >> THEN cfg.prefix \o <<" ">> \o prefix ELSE prefix]

\* child(prefix)
child(cfg, prefix) == Logger(childConfig(cfg, prefix))

RECURSIVE Join(_)
Join(codes) == IF codes = << >> THEN << >> ELSE Head(codes) \o Join(Tail(codes))

\* colorize(text, ...codes)
colorize(cfg, text, codes) ==
  IF cfg.colorize # "true" THEN text
  ELSE Join(codes) \o text \o colors.reset

\* parts.join(" ")
RECURSIVE JoinParts(_)
JoinParts(parts) ==
  IF parts = << >> THEN << >>
  ELSE IF Len(parts) = 1 THEN parts[1]
  ELSE parts[1] \o <<" ">> \o JoinParts(Tail(parts))

\* formatMessage(message, levelColor): levelColor is << >> when the caller
\* gives none; now is the text of new Date().toISOString(), context what
\* getCallerContext() returned (<< >> for null)
formatMessage(cfg, message, levelColor, now, context) ==
  JoinParts(
    (IF cfg.showTimestamp = "true"
     THEN <<colorize(cfg, <<"[">> \o now \o <<"]">>, <<colors.gray>>)>> ELSE << >>)
    \o (IF cfg.showContext = "true" /\ context # << >>
        THEN <<colorize(cfg, <<"[">> \o context \o <<"]">>, <<colors.dim>>)>>
        ELSE << >>)
    \o (IF cfg.prefix # << >>
        THEN <<colorize(cfg, cfg.prefix, <<colors.magenta>>)>> ELSE << >>)
    \o (IF levelColor # << >>
        THEN <<colorize(cfg, message, <<levelColor>>)>> ELSE <<message>>))

\* The clock and the caller context of the calls
T_now == <<"2","0","2","6","-","0","1","-","0","5","T","0","0",":","0","0",":","0","0",".","0","0","0","Z">>
NoContext == << >>

\* processLogData with the test of enableRedaction negated
processLogDataToggled(cfg, message, as, H, lim, levelColor) ==
  IF cfg.enableRedaction = "true"
  THEN <<Str(formatMessage(cfg, message, levelColor, T_now, NoContext))>> \o as
  ELSE <<Str(redactString(formatMessage(cfg, message, levelColor,
                                        T_now, NoContext)))>>
         \o sanitizeArgs(as, H, lim).v

\* processLogData(message, args, levelColor): [processedMessage,
\* processedArgs], as the list processedMessage, ...processedArgs that
\* every caller spreads into its console call
processLogData(cfg, message, as, H, lim, levelColor) ==
  IF cfg.enableRedaction # "true"
  THEN <<Str(formatMessage(cfg, message, levelColor, T_now, NoContext))>> \o as
  ELSE <<Str(redactString(formatMessage(cfg, message, levelColor,
                                        T_now, NoContext)))>>
         \o sanitizeArgs(as, H, lim).v

\* A call of a console method with its arguments
Write(method, argv) == [method |-> method, argv |-> argv]

T_failed == <<"[","L","o","g","g","e","r","]"," ","F","a","i","l","e","d"," ","t","o"," ","r","e","a","d"," ","p","r","e","f","e","r","e","n","c","e","s"," ","f","o","r"," ","v","e","r","b","o","s","e"," ","l","o","g","g","i","n","g",":">>
PreferencesError == Val("error", 0, << >>, << >>, << >>)

\* defaultVerboseCheck(): what it returns and what it writes, for the state
\* v of the preferences ("unreadable": getPreferenceValues throws)
defaultVerboseCheck(v) ==
  IF v = "unreadable"
  THEN [answer |-> FALSE,
        out |-> <<Write("error", <<Str(T_failed), PreferencesError>>)>>]
  ELSE [answer |-> v = "on", out |-> << >>]

\* this.config.isVerboseEnabled(): the caller's function answers by the
\* caller's switch
isVerboseEnabled(cfg, v) ==
  IF cfg.isVerboseEnabled = "custom"
  THEN [answer |-> v = "on", out |-> << >>]
  ELSE defaultVerboseCheck(v)

\* A method that goes on whatever isVerboseEnabled() answers
VerboseOnlyUngated(check, body) == body

\* if (this.config.isVerboseEnabled()) { <body> }: where the method goes
\* on, "logged" when it returns at once
VerboseOnly(check, body) == IF check.answer THEN body ELSE "logged"

\* console.<method>(...labels, processedMessage, ...processedArgs)
WriteProcessed(method, labels, pd) == Write(method, labels \o pd)

T_ERROR == <<"[","E","R","R","O","R","]">>
T_WARN == <<"[","W","A","R","N","]">>
T_INFO == <<"[","I","N","F","O","]">>
T_DEBUG == <<"[","D","E","B","U","G","]">>

\* What a method passes on: its label, the levelColor it hands to
\* processLogData and the console method it writes with.
\* log(message, ...args)
log(cfg) == [write |-> "log", labels |-> << >>, levelColor |-> colors.cyan]

\* error(message, ...args)
error(cfg) ==
  [write |-> "error",
   labels |-> <<Str(colorize(cfg, T_ERROR, <<colors.red, colors.bold>>))>>,
   levelColor |-> colors.red]

\* warn(message, ...args)
warn(cfg) ==
  [write |-> "warn",
   labels |-> <<Str(colorize(cfg, T_WARN, <<colors.yellow, colors.bold>>))>>,
   levelColor |-> colors.yellow]

\* info(message, ...args)
info(cfg) ==
  [write |-> "info",
   labels |-> <<Str(colorize(cfg, T_INFO, <<colors.blue, colors.bold>>))>>,
   levelColor |-> colors.blue]

\* debug(message, ...args)
debug(cfg) ==
  [write |-> "debug",
   labels |-> <<Str(colorize(cfg, T_DEBUG, <<colors.gray>>))>>,
   levelColor |-> colors.gray]

\* The message of the callback time(label) returns, for the text of
\* duration.toFixed(2)
completedIn(label, duration) ==
  label \o <<" ","c","o","m","p","l","e","t","e","d"," ","i","n"," ">> \o duration \o <<"m","s">>

\* step(step, description, data)
step(cfg, n) ==
  [write |-> "log",
   labels |-> <<Str(colorize(cfg, <<"[","S","t","e","p"," ">> \o n \o <<"]">>,
                             <<colors.cyan, colors.bold>>))>>,
   levelColor |-> << >>]

\* "=".repeat(Math.max(0, n))
Repeat(c, n) == [i \in 1..Max(0, n) |-> c]

\* The text JSON.stringify(tree, null, 2) writes, kept as the tree it
\* renders; String(value) of an object
JSONText(tree) == Val("text", 0, << >>, << >>, <<tree>>)
T_object == <<"[","o","b","j","e","c","t"," ","O","b","j","e","c","t","]">>

\* The tree JSON.stringify without a replacer renders for plain acyclic data
RECURSIVE TreeOf(_, _)
TreeOf(v, H) ==
  IF v.t # "ref" THEN v
  ELSE IF H[v.n].kind = "array"
  THEN Arr([i \in DOMAIN H[v.n].kids |-> TreeOf(H[v.n].kids[i], H)])
  ELSE Obj(H[v.n].keys, [i \in DOMAIN H[v.n].kids |-> TreeOf(H[v.n].kids[i], H)])

\* try { formatted = ... } catch { formatted = String(value) }, for the
\* outcome r of the sanitizing round trip
Formatted(r) == IF r.ok THEN JSONText(r.v) ELSE Str(T_object)

\* inspect(label, value), once isVerboseEnabled() has answered true
inspect(cfg, label, value, H, lim) ==
  <<Write("log",
      <<Str(formatMessage(cfg,
              colorize(cfg,
                <<"=","=","="," ">> \o label \o <<" ">>
                  \o Repeat("=", 40 - Len(label) - 2),
                <<colors.magenta, colors.bold>>),
              << >>, T_now, NoContext))>>),
    Write("log",
      <<IF cfg.enableRedaction = "true"
        THEN Formatted(JSONRoundTrip(value, H, 0, lim))
        ELSE JSONText(TreeOf(value, H))>>),
    Write("log",
      <<Str(colorize(cfg,
              <<"=","=","="," ","E","n","d"," ">> \o label \o <<" ">>
                \o Repeat("=", 36 - Len(label)),
              <<colors.magenta>>))>>)>>

\* ------------------------------------------------ the callers of the Logger

MaxLoggers == 3

P_A == <<"[","A","]">>
P_auth == <<"a","u","t","h",":">>
M_started == <<"s","t","a","r","t","e","d">>
M_pwd == <<"p","w","d","=","a","b","c">>

\* The config objects the callers pass to new Logger(config)
LoggerConfigs ==
  { [EmptyConfig EXCEPT !.isVerboseEnabled = "custom", !.colorize = "false"],
    [EmptyConfig EXCEPT !.isVerboseEnabled = "custom", !.prefix = P_A,
                        !.enableRedaction = "false", !.colorize = "false"],
    [EmptyConfig EXCEPT !.prefix = P_A, !.enableRedaction = "true"] }

ChildPrefixes == {P_A, P_auth}
Messages == {M_started, M_pwd}
StepNumbers == {<<"1">>}
Labels == {<<"j","o","b">>}
Durations == {<<"1",".","5","0">>}

\* The argument lists of the calls, and the caller's objects they refer to
LogHeap == <<Node("object", <<K_pwd>>, <<Str(S_abc)>>)>>
ArgLists == {<< >>, <<Ref(1)>>}
HeapOf(as) == IF as = << >> THEN << >> ELSE LogHeap

\* The module is evaluated by its first import, and its last statement is
\* logger = Logger.getInstance(): the first call of the API is that one.
\* Every call of getInstance returns Logger.instance.
GetInstance ==
  /\ pc = "idle"
  /\ Len(getInstance(loggers, instance).loggers) <= MaxLoggers
  /\ loggers' = getInstance(loggers, instance).loggers
  /\ instance' = getInstance(loggers, instance).instance
  /\ ret' = instance'
  /\ call' = [op |-> "getInstance"]
  /\ pc' = "made"
  /\ UNCHANGED <<verbose, console, timer>>
  /\ UNCHANGED engineVars

\* new Logger(config)
NewLogger ==
  /\ pc = "idle"
  /\ ret # 0
  /\ Len(loggers) < MaxLoggers
  /\ \E config \in LoggerConfigs :
       /\ loggers' = Append(loggers, Logger(config))
       /\ call' = [op |-> "new", config |-> config]
  /\ ret' = Len(loggers')
  /\ pc' = "made"
  /\ UNCHANGED <<instance, verbose, console, timer>>
  /\ UNCHANGED engineVars

\* ret.child(prefix)
Child ==
  /\ pc = "idle"
  /\ ret # 0
  /\ Len(loggers) < MaxLoggers
  /\ \E prefix \in ChildPrefixes :
       /\ loggers' = Append(loggers, child(loggers[ret], prefix))
       /\ call' = [op |-> "child", on |-> ret, prefix |-> prefix]
  /\ ret' = Len(loggers')
  /\ pc' = "made"
  /\ UNCHANGED <<instance, verbose, console, timer>>
  /\ UNCHANGED engineVars

\* The user changes the preference, the caller its switch, or the
\* preferences become unreadable
SetVerbose ==
  /\ pc \in {"idle", "timing"}
  /\ \E v \in {"on", "off", "unreadable"} : v # verbose /\ verbose' = v
  /\ UNCHANGED <<pc, loggers, instance, ret, call, console, timer>>
  /\ UNCHANGED engineVars

\* A logging method of the Logger c.on is entered with the argument list
\* as; out is what the test of isVerboseEnabled() wrote, next where the
\* method goes on
Called(c, as, out, next) ==
  /\ call' = c
  /\ args' = as
  /\ heap' = HeapOf(as)
  /\ stack' = MaxStack
  /\ console' = out
  /\ pc' = next
  /\ UNCHANGED <<result, heap2, result2, loggers, instance, ret, verbose>>

Log ==
  /\ pc = "idle" /\ ret # 0
  /\ \E m \in Messages, as \in ArgLists :
       Called([op |-> "log", on |-> ret, message |-> m,
               do |-> log(loggers[ret])], as,
              isVerboseEnabled(loggers[ret], verbose).out,
              VerboseOnly(isVerboseEnabled(loggers[ret], verbose), "writing"))
  /\ UNCHANGED timer

Error ==
  /\ pc = "idle" /\ ret # 0
  /\ \E m \in Messages, as \in ArgLists :
       Called([op |-> "error", on |-> ret, message |-> m,
               do |-> error(loggers[ret])], as, << >>, "writing")
  /\ UNCHANGED timer

Warn ==
  /\ pc = "idle" /\ ret # 0
  /\ \E m \in Messages, as \in ArgLists :
       Called([op |-> "warn", on |-> ret, message |-> m,
               do |-> warn(loggers[ret])], as, << >>, "writing")
  /\ UNCHANGED timer

Info ==
  /\ pc = "idle" /\ ret # 0
  /\ \E m \in Messages, as \in ArgLists :
       Called([op |-> "info", on |-> ret, message |-> m,
               do |-> info(loggers[ret])], as, << >>, "writing")
  /\ UNCHANGED timer

Debug ==
  /\ pc = "idle" /\ ret # 0
  /\ \E m \in Messages, as \in ArgLists :
       Called([op |-> "debug", on |-> ret, message |-> m,
               do |-> debug(loggers[ret])], as,
              isVerboseEnabled(loggers[ret], verbose).out,
              VerboseOnly(isVerboseEnabled(loggers[ret], verbose), "writing"))
  /\ UNCHANGED timer

\* as is data ? [data] : []
Step ==
  /\ pc = "idle" /\ ret # 0
  /\ \E n \in StepNumbers, m \in Messages, as \in ArgLists :
       Called([op |-> "step", on |-> ret, message |-> m,
               do |-> step(loggers[ret], n)], as,
              isVerboseEnabled(loggers[ret], verbose).out,
              VerboseOnly(isVerboseEnabled(loggers[ret], verbose), "writing"))
  /\ UNCHANGED timer

Inspect ==
  /\ pc = "idle" /\ ret # 0
  /\ \E l \in Labels :
       Called([op |-> "inspect", on |-> ret, message |-> l], <<Ref(1)>>,
              isVerboseEnabled(loggers[ret], verbose).out,
              VerboseOnly(isVerboseEnabled(loggers[ret], verbose), "inspecting"))
  /\ UNCHANGED timer

\* done = ret.time(label): nothing is written, the caller holds the callback
Time ==
  /\ pc = "idle" /\ ret # 0
  /\ \E l \in Labels :
       /\ timer' = [on |-> ret, label |-> l]
       /\ call' = [op |-> "time", on |-> ret, message |-> l]
  /\ pc' = "timing"
  /\ UNCHANGED <<loggers, instance, ret, verbose, console>>
  /\ UNCHANGED engineVars

\* done(meta): as is the meta object, when given; the callback calls
\* this.log(message, meta)
TimerDone ==
  /\ pc = "timing"
  /\ \E d \in Durations, as \in ArgLists :
       Called([op |-> "done", on |-> timer.on,
               message |-> completedIn(timer.label, d),
               do |-> log(loggers[timer.on])], as,
              isVerboseEnabled(loggers[timer.on], verbose).out,
              VerboseOnly(isVerboseEnabled(loggers[timer.on], verbose),
                          "writing"))
  /\ timer' = NoTimer

\* The statements every method but inspect ends with:
\*   [processedMessage, processedArgs] = this.processLogData(...)
\*   console.<method>(label, processedMessage, ...processedArgs)
ProcessAndWrite ==
  /\ pc = "writing"
  /\ console' =
       Append(console,
              WriteProcessed(call.do.write, call.do.labels,
                processLogData(loggers[call.on], call.message, args, heap,
                               stack, call.do.levelColor)))
  /\ pc' = "logged"
  /\ UNCHANGED <<loggers, instance, ret, verbose, call, timer>>
  /\ UNCHANGED engineVars

\* The three console.log calls of inspect
WriteInspection ==
  /\ pc = "inspecting"
  /\ console' =
       console \o inspect(loggers[call.on], call.message, args[1], heap, stack)
  /\ pc' = "logged"
  /\ UNCHANGED <<loggers, instance, ret, verbose, call, timer>>
  /\ UNCHANGED engineVars

\* The caller goes on
Ack ==
  /\ pc \in {"made", "logged"}
  /\ pc' = "idle"
  /\ call' = NoCall
  /\ console' = << >>
  /\ heap' = << >>
  /\ args' = << >>
  /\ stack' = 0
  /\ UNCHANGED <<result, heap2, result2, loggers, instance, ret, verbose, timer>>

LoggerNext ==
  \/ GetInstance
  \/ NewLogger
  \/ Child
  \/ SetVerbose
  \/ Log
  \/ Error
  \/ Warn
  \/ Info
  \/ Debug
  \/ Step
  \/ Inspect
  \/ Time
  \/ TimerDone
  \/ ProcessAndWrite
  \/ WriteInspection
  \/ Ack

LoggerSpec == Init /\ [][LoggerNext]_vars

\* ------------------------------------------------- reading heaps and results

Returned == pc \in {"returned", "compared"}

\* The heap objects a heap object refers to directly
Succ(H, a) ==
  {H[a].kids[i].n : i \in {j \in DOMAIN H[a].kids : H[a].kids[j].t = "ref"}}

RECURSIVE ReachIn(_, _, _)
ReachIn(H, S, n) ==
  IF n = 0 THEN S
  ELSE ReachIn(H, S \cup UNION {Succ(H, a) : a \in S}, n - 1)

\* Some object of the heap is reachable from itself
IsCyclic(H) == \E a \in DOMAIN H : a \in ReachIn(H, Succ(H, a), Len(H))

\* Some property makes JSON.stringify throw: a getter that throws, a BigInt
HasUnserializable(H) ==
  \E a \in DOMAIN H : \E i \in DOMAIN H[a].kids :
    H[a].kids[i].t \in {"getter", "bigint"}

\* Plain data: mappings and arrays of strings, finite numbers, booleans and
\* null, without cycles
PlainData(H) ==
  /\ \A a \in DOMAIN H :
       /\ H[a].kind \in {"object", "array"}
       /\ \A i \in DOMAIN H[a].kids :
            H[a].kids[i].t \in {"string", "number", "boolean", "null", "ref"}
  /\ ~IsCyclic(H)

\* The value holds a reference to an object of the caller
RECURSIVE ContainsRef(_)
ContainsRef(v) == v.t = "ref" \/ \E i \in DOMAIN v.kids : ContainsRef(v.kids[i])

\* The value holds the placeholder "***"
RECURSIVE HasPlaceholder(_)
HasPlaceholder(v) ==
  v = Str(Mask3) \/ \E i \in DOMAIN v.kids : HasPlaceholder(v.kids[i])

\* The value holds an empty object or array
RECURSIVE HasEmptyContainer(_)
HasEmptyContainer(v) ==
  \/ v.t \in {"object", "array"} /\ v.kids = << >>
  \/ \E i \in DOMAIN v.kids : HasEmptyContainer(v.kids[i])

\* The call was sanitizeArgs([{k: v}]) for a string v
FlatStringMapping ==
  /\ Returned
  /\ args = <<Ref(1)>>
  /\ Len(heap) = 1
  /\ heap[1].kind = "object"
  /\ Len(heap[1].keys) = 1
  /\ heap[1].kids[1].t = "string"

\* The key sets as the claims list them
ClaimCoverageKeys == {K_password, K_pass, K_pwd, K_secret, K_token, K_auth,
                      K_authorization}
ClaimIdentifierKeys == {K_email, K_username, K_user, K_appleid, K_apple_id}
ClaimNumericKeys == {K_code, K_otp, K_2fa}
ClaimTwoFactorKeys == {K_code, K_otp, K_2fa, K_twofactor}

\* The property of the tree out that has the given key
HasKey(out, key) == \E j \in DOMAIN out.keys : out.keys[j] = key
KidAt(out, key) == out.kids[CHOOSE j \in DOMAIN out.keys : out.keys[j] = key]

\* ------------------------------------------------------------------ claims

\* C1: sanitizeArgs returns for every input, and the number of nested
\* redactValueByKey activations is at most the number of distinct objects
\* and arrays of the input.
C1_ActivationsBoundedByInput ==
  Returned => result.ok /\ result.d <= Cardinality(DOMAIN heap)

\* C2: when rebuilding a mapping or array fails (a getter throws, the
\* serialization raises), the result for that argument is a placeholder and
\* never the caller's own object.
C2_FailureGivesPlaceholder ==
  (Returned /\ HasUnserializable(heap)) =>
    \A i \in DOMAIN result.v :
      ~ContainsRef(result.v[i]) /\ HasPlaceholder(result.v[i])

\* What a reader of the returned array can see: the array, and the caller's
\* objects when the array refers to them
Observable(res, H) ==
  <<res.v, IF \E i \in DOMAIN res.v : ContainsRef(res.v[i]) THEN H ELSE << >> >>

\* C3: two inputs that differ only in the strings stored under fully masked
\* keys give equal outputs.
C3_NonInterference ==
  pc = "compared" => Observable(result, heap) = Observable(result2, heap2)

\* C4: a mapping or array met again while it is being traversed is returned
\* as an empty container, and the rest of the value is still sanitized: the
\* result is a rebuilt value with an empty container, without the caller's
\* objects.
C4_CycleBecomesEmptyContainer ==
  (Returned /\ IsCyclic(heap)) =>
    \A i \in DOMAIN result.v :
      ~ContainsRef(result.v[i]) /\ HasEmptyContainer(result.v[i])

\* C5: sanitizeArgs never raises: whatever is thrown inside (RangeError,
\* TypeError, a getter's error, SyntaxError) is caught, and the call returns
\* an array with one entry per argument.
C5_NeverRaises ==
  /\ Returned => result.ok /\ Len(result.v) = Len(args)
  /\ pc = "compared" => result2.ok /\ Len(result2.v) = Len(args)

C5_Witness ==
  /\ Returned
  /\ HasUnserializable(heap) \/ IsCyclic(heap)
  /\ result.ok

\* C6: for every key of the password class, in any casing, and every string
\* v, {k: v} sanitizes to {k: "***"}.
C6_KeyClassCoverage ==
  (FlatStringMapping /\ KeyIn(heap[1].keys[1], ClaimCoverageKeys)) =>
    result.v = <<Obj(heap[1].keys, <<Str(Mask3)>>)>>

C6_Witness ==
  /\ FlatStringMapping
  /\ heap[1].keys[1] = Recase(K_authorization, "upper")
  /\ heap[1].kids[1] = Str(S_digits)
  /\ result.v = <<Obj(heap[1].keys, <<Str(Mask3)>>)>>

\* The output tree for an input value of plain data: mappings keep their
\* keys, arrays their length and order, a string under a fully masked key is
\* "***", a string under an identifier key is the partial mask of the input.
RECURSIVE KeyRulesApplied(_, _, _, _)
KeyRulesApplied(k, vin, vout, H) ==
  CASE vin.t = "string" ->
         /\ vout.t = "string"
         /\ KeyIn(k, ClaimFullMaskKeys) => vout.s = Mask3
         /\ KeyIn(k, ClaimIdentifierKeys) => vout.s = maskEmail(vin.s)
    [] vin.t = "ref" /\ H[vin.n].kind = "array" ->
         /\ vout.t = "array"
         /\ Len(vout.kids) = Len(H[vin.n].kids)
         /\ \A i \in DOMAIN H[vin.n].kids :
              KeyRulesApplied(<< >>, H[vin.n].kids[i], vout.kids[i], H)
    [] vin.t = "ref" /\ H[vin.n].kind # "array" ->
         /\ vout.t = "object"
         /\ vout.keys = H[vin.n].keys
         /\ \A i \in DOMAIN H[vin.n].kids :
              KeyRulesApplied(H[vin.n].keys[i], H[vin.n].kids[i],
                              vout.kids[i], H)
    [] OTHER -> vout.t = vin.t

RECURSIVE NumbersAsClaimed(_, _, _, _)
NumbersAsClaimed(k, vin, vout, H) ==
  CASE vin.t = "number" ->
         vout = IF KeyIn(k, ClaimNumericKeys) THEN Num(0) ELSE vin
    [] vin.t = "ref" /\ H[vin.n].kind = "array" ->
         /\ vout.t = "array"
         /\ Len(vout.kids) = Len(H[vin.n].kids)
         /\ \A i \in DOMAIN H[vin.n].kids :
              NumbersAsClaimed(<< >>, H[vin.n].kids[i], vout.kids[i], H)
    [] vin.t = "ref" /\ H[vin.n].kind # "array" ->
         /\ vout.t = "object"
         /\ \A i \in DOMAIN H[vin.n].kids :
              H[vin.n].kids[i].t \in {"number", "ref"} =>
                /\ HasKey(vout, H[vin.n].keys[i])
                /\ NumbersAsClaimed(H[vin.n].keys[i], H[vin.n].kids[i],
                                    KidAt(vout, H[vin.n].keys[i]), H)
    [] OTHER -> TRUE

CodeStringCall ==
  /\ FlatStringMapping
  /\ heap[1].keys = <<K_code>>
  /\ heap[1].kids = <<Str(S_digits)>>

\* C9 as stated: {code: "123456"} sanitizes to {code: "***"}.
C9_StringCodeThreeStars ==
  CodeStringCall => result.v = <<Obj(<<K_code>>, <<Str(Mask3)>>)>>

\* C9 as amended: {code: "123456"} sanitizes to {code: "******"}: a string,
\* the six-character placeholder, not the number 0 of the numeric path and
\* not the "***" of the password class.
C9_StringCodeSixStars ==
  CodeStringCall =>
    /\ result.v = <<Obj(<<K_code>>, <<Str(<<"*","*","*","*","*","*">>)>>)>>
    /\ result.v[1].kids[1] # Num(0)
    /\ result.v[1].kids[1] # Str(Mask3)

C9_Witness ==
  /\ CodeStringCall
  /\ result.v[1].kids[1].s = <<"*","*","*","*","*","*">>

\* C10: for every key of {code, otp, 2fa, twofactor}, in any casing, a string
\* of any content and length becomes the six-character mask "******".
C10_TwoFactorStringMask ==
  (FlatStringMapping /\ KeyIn(heap[1].keys[1], ClaimTwoFactorKeys)) =>
    /\ result.v = <<Obj(heap[1].keys, <<Str(<<"*","*","*","*","*","*">>)>>)>>
    /\ Len(result.v[1].kids[1].s) = 6

C10_Witness ==
  /\ FlatStringMapping
  /\ heap[1].keys[1] = Recase(K_twofactor, "upper")
  /\ heap[1].kids[1] = Str(S_abc)
  /\ result.v[1].kids[1] = Str(<<"*","*","*","*","*","*">>)

\* C11: for a property named key, apiKey or apikey holding a string,
\* sanitizeArgs returns "***" for the property, whatever the string.
C11_ApiKeyMasked ==
  (FlatStringMapping /\ heap[1].keys[1] \in {K_key, K_apiKey, K_apikey}) =>
    result.v = <<Obj(heap[1].keys, <<Str(Mask3)>>)>>

\* C12: a string under an identifier key (email, username, user, appleid,
\* apple_id, any casing) comes back as its first character followed by "***"
\* and a remainder, whether or not it is email-shaped, and never unchanged.
C12_IdentifierAlwaysMasked ==
  (FlatStringMapping /\ KeyIn(heap[1].keys[1], ClaimIdentifierKeys)) =>
    /\ result.v[1].t = "object"
    /\ result.v[1].keys = heap[1].keys
    /\ result.v[1].kids[1].t = "string"
    /\ result.v[1].kids[1].s # heap[1].kids[1].s
    /\ Len(result.v[1].kids[1].s) >= 4
    /\ result.v[1].kids[1].s[1] = heap[1].kids[1].s[1]
    /\ SubSeq(result.v[1].kids[1].s, 2, 4) = <<"*","*","*">>

\* The text s has the word w at position i
IsAt(s, i, w) == i + Len(w) - 1 <= Len(s) /\ SubSeq(s, i, i + Len(w) - 1) = w

\* The call was redactString(text)
Scrubbed == pc \in {"scrubbed", "rescrubbed"}

\* C13: an e-mail address local@domain.tld in a string comes out of
\* redactString as the first character of the local part, "***" and the
\* unchanged @domain.tld; the text around it stays.
C13_EmailMaskedInText ==
  Scrubbed =>
    \A h \in Heads, l \in LocalParts, t \in Tails :
      args[1].s = h \o l \o T_domain \o t =>
        result.v[1].s = h \o <<l[1]>> \o <<"*","*","*">> \o T_domain \o t

C13_Witness ==
  /\ Scrubbed
  /\ args[1].s = <<"x"," ","j",".","d","o","e","@","x",".","i","o"," ","y">>
  /\ result.v[1].s = <<"x"," ","j","*","*","*","@","x",".","i","o"," ","y">>

\* C14: redactString(redactString(s)) = redactString(s).
C14_ScrubIdempotent ==
  pc = "rescrubbed" => result2.v = result.v

C14_Witness ==
  /\ pc = "rescrubbed"
  /\ args[1].s = <<"c","o","d","e",":","1","2","3","4","5","6","7","8","9",
                   " ","p","w","d","=","a","b","c">>
  /\ result.v[1].s # args[1].s
  /\ result2.v = result.v

\* C15: an occurrence of a sensitive name (any casing), ':' or '=' and a
\* value comes out of redactString as the name as written, "=" and "***";
\* the text around it stays.
C15_KeyValueScrubbed ==
  Scrubbed =>
    \A h \in Heads : IsAt(args[1].s, 1, h) =>
      \A k \in SensitiveNames, c \in KeyValueCasings :
        IsAt(args[1].s, Len(h) + 1, Recase(k, c)) =>
          \A sep \in KeyValueSeparators, t \in Tails :
            args[1].s = h \o Recase(k, c) \o sep \o T_value \o t =>
              result.v[1].s = h \o Recase(k, c) \o <<"=","*","*","*">> \o t

C15_Witness ==
  /\ Scrubbed
  /\ args[1].s = <<"<","A","U","T","H","O","R","I","Z","A","T","I","O","N",
                   ":"," ","a","b","c","&","p","=","1">>
  /\ result.v[1].s = <<"<","A","U","T","H","O","R","I","Z","A","T","I","O","N",
                       "=","*","*","*","&","p","=","1">>

\* The output keeps the keys of every mapping of the input and the length
\* of every array (vout = vin: the output is the caller's own object)
RECURSIVE ShapeKept(_, _, _)
ShapeKept(vin, vout, H) ==
  \/ vout = vin
  \/ vin.t # "ref"
  \/ H[vin.n].kind = "instance"
  \/ /\ H[vin.n].kind = "array"
     /\ vout.t = "array"
     /\ Len(vout.kids) = Len(H[vin.n].kids)
     /\ \A i \in DOMAIN vout.kids : ShapeKept(H[vin.n].kids[i], vout.kids[i], H)
  \/ /\ H[vin.n].kind = "object"
     /\ vout.t = "object"
     /\ vout.keys = H[vin.n].keys
     /\ \A i \in DOMAIN vout.kids : ShapeKept(H[vin.n].kids[i], vout.kids[i], H)

\* C16: every mapping of the output has the keys of the mapping of the input
\* it stands for, in their order, and every array the same length, whatever
\* the values are (strings, numbers, booleans, null or absent values,
\* containers).
C16_ShapePreserved ==
  Returned => \A i \in DOMAIN args : ShapeKept(args[i], result.v[i], heap)

\* Where the input holds a class instance, the output holds the same object
RECURSIVE OpaqueKept(_, _, _)
OpaqueKept(vin, vout, H) ==
  \/ vout = vin
  \/ vin.t # "ref"
  \/ /\ H[vin.n].kind = "array"
     /\ vout.t = "array"
     /\ \A i \in DOMAIN H[vin.n].kids :
          i \in DOMAIN vout.kids /\ OpaqueKept(H[vin.n].kids[i], vout.kids[i], H)
  \/ /\ H[vin.n].kind = "object"
     /\ vout.t = "object"
     /\ \A i \in DOMAIN H[vin.n].kids :
          H[vin.n].kids[i].t = "ref" =>
            /\ HasKey(vout, H[vin.n].keys[i])
            /\ OpaqueKept(H[vin.n].kids[i], KidAt(vout, H[vin.n].keys[i]), H)

\* C17: an object that is not plain data (an Error, a Date, a Map), passed as
\* an argument or stored as a property, is in the output as the same object.
C17_OpaqueUnchanged ==
  Returned => \A i \in DOMAIN args : OpaqueKept(args[i], result.v[i], heap)

\* null, undefined, booleans and numbers (NaN, the infinities and BigInt
\* included) are in the output as they are in the input, but for the numbers
\* under a key of the numeric class; a property holding undefined may be
\* absent from the output
RECURSIVE ScalarsKept(_, _, _, _)
ScalarsKept(k, vin, vout, H) ==
  \/ vout = vin
  \/ vin.t = "number" /\ KeyIn(k, ClaimNumericKeys)
  \/ vin.t = "string"
  \/ /\ vin.t = "ref"
     /\ H[vin.n].kind = "instance"
  \/ /\ vin.t = "ref"
     /\ H[vin.n].kind = "array"
     /\ vout.t = "array"
     /\ \A i \in DOMAIN H[vin.n].kids :
          i \in DOMAIN vout.kids /\ ScalarsKept(<< >>, H[vin.n].kids[i], vout.kids[i], H)
  \/ /\ vin.t = "ref"
     /\ H[vin.n].kind = "object"
     /\ vout.t = "object"
     /\ \A i \in DOMAIN H[vin.n].kids :
          IF HasKey(vout, H[vin.n].keys[i])
          THEN ScalarsKept(H[vin.n].keys[i], H[vin.n].kids[i],
                           KidAt(vout, H[vin.n].keys[i]), H)
          ELSE H[vin.n].kids[i].t = "undefined"

\* C18: every null, absent, boolean or number leaf that is not under a
\* numeric-redaction key is in the output with the same type and value, at
\* the top and at any depth, special numeric values and large integers
\* included.
C18_ScalarsNotCoerced ==
  Returned => \A i \in DOMAIN args : ScalarsKept(<< >>, args[i], result.v[i], heap)

\* sout is what redactString or a key rule makes of sin
IsScrubbed(sin, sout) ==
  sout \in {redactString(sin), maskEmail(sin), <<"*","*","*">>,
            <<"*","*","*","*","*","*">>}

\* Every string of the rebuilt value vout is the scrubbed string of vin
RECURSIVE StringsScrubbed(_, _, _)
StringsScrubbed(vin, vout, H) ==
  \/ vin.t = "string" /\ vout.t = "string" /\ IsScrubbed(vin.s, vout.s)
  \/ vin.t \notin {"string", "ref"}
  \/ /\ vin.t = "ref"
     /\ H[vin.n].kind = "instance"
  \/ /\ vin.t = "ref"
     /\ H[vin.n].kind = "array"
     /\ vout.t = "array"
     /\ \A i \in DOMAIN H[vin.n].kids :
          i \in DOMAIN vout.kids /\ StringsScrubbed(H[vin.n].kids[i], vout.kids[i], H)
  \/ /\ vin.t = "ref"
     /\ H[vin.n].kind = "object"
     /\ vout.t = "object"
     /\ \A i \in DOMAIN H[vin.n].kids :
          H[vin.n].kids[i].t \in {"string", "ref"} =>
            /\ HasKey(vout, H[vin.n].keys[i])
            /\ StringsScrubbed(H[vin.n].kids[i], KidAt(vout, H[vin.n].keys[i]), H)

\* C19: every string of the output of sanitizeArgs is what redactString or a
\* key rule's mask makes of the input string it stands for; where the output
\* is the caller's own object, its strings are the strings of the output.
C19_EveryStringScrubbed ==
  Returned =>
    \A i \in DOMAIN args :
      IF result.v[i].t = "ref"
      THEN \A a \in DOMAIN heap : \A j \in DOMAIN heap[a].kids :
             heap[a].kids[j].t = "string" =>
               IsScrubbed(heap[a].kids[j].s, heap[a].kids[j].s)
      ELSE StringsScrubbed(args[i], result.v[i], heap)

\* C20: sanitizeArgs leaves the objects of its arguments as they are and
\* returns a separate value: no object of the arguments is part of the
\* result.  (sanitizeArgs writes to no object: heap is not changed by the
\* call.)
C20_ResultIsSeparate ==
  Returned =>
    /\ \A i \in DOMAIN args : args[i].t = "ref" => result.v[i] # args[i]
    /\ \A i \in DOMAIN result.v : ~ContainsRef(result.v[i])

\* The text s holds the word w
Contains(s, w) ==
  \E i \in 1..(Len(s) - Len(w) + 1) : SubSeq(s, i, i + Len(w) - 1) = w

\* The text holds a bearer token: the word bearer in any casing, white
\* space, and a token
HoldsBearerToken(s) == \E i \in DOMAIN s : BearerLenAt(s, i) > 0

\* C26: the passes of redactString run in the order bearer, key=value,
\* labeled code, hex, base64, e-mail, and no later pass rewrites what an
\* earlier pass wrote: for a text that holds a bearer token, the placeholder
\* "Bearer ***" of the first pass is in the output.
C26_BearerPlaceholderKept ==
  (pc = "scrubbed" /\ HoldsBearerToken(args[1].s)) =>
    Contains(result.v[1].s, <<"B","e","a","r","e","r"," ","*","*","*">>)

RECURSIVE SharedSanitized(_, _, _)
SharedSanitized(vin, vout, H) ==
  vin.t = "ref" =>
    /\ vout.t \in {"object", "array"}
    /\ Len(vout.kids) = Len(H[vin.n].kids)
    /\ \A i \in DOMAIN H[vin.n].kids :
         SharedSanitized(H[vin.n].kids[i], vout.kids[i], H)
    /\ \A i, j \in DOMAIN H[vin.n].kids :
         (H[vin.n].kids[i].t = "ref" /\ H[vin.n].kids[j] = H[vin.n].kids[i]) =>
           /\ vout.kids[j] = vout.kids[i]
           /\ KeyRulesApplied(<< >>, H[vin.n].kids[i], vout.kids[i], H)

\* Some mapping holds the same object under two keys
HoldsShared(H) ==
  \E a \in DOMAIN H : \E i, j \in DOMAIN H[a].kids :
    i # j /\ H[a].kids[i].t = "ref" /\ H[a].kids[j] = H[a].kids[i]

\* C27: in an acyclic value where the same mapping is reached through two
\* sibling members ({a: X, b: X}), both occurrences are sanitized in full
\* and are equal in the output; nothing is cut as a cycle.
C27_SharedIsNotACycle ==
  (Returned /\ PlainData(heap) /\ HoldsShared(heap)) =>
    \A i \in DOMAIN args : SharedSanitized(args[i], result.v[i], heap)

C27_Witness ==
  /\ Returned
  /\ heap = <<Node("array", << >>, <<Ref(2), Num(7)>>),
              Node("object", <<<<"a">>, <<"b">>>>, <<Ref(3), Ref(3)>>),
              Node("object", <<<<"p","w","d">>>>, <<Str(<<"j","o","@","x",".","i","o">>)>>)>>
  /\ result.v[1].kids[1].kids[1] = Obj(<<<<"p","w","d">>>>, <<Str(<<"*","*","*">>)>>)
  /\ result.v[1].kids[1].kids[2] = result.v[1].kids[1].kids[1]

\* ------------------------------------------------- claims about the Logger

\* The methods that write whatever the verbosity is, and those that ask
AlwaysShown == {"error", "warn", "info"}
VerboseGated == {"log", "debug", "step", "inspect", "done"}

\* The notice about unreadable preferences
IsNotice(w) == w.method = "error" /\ w.argv[1] = Str(T_failed)

\* The call has written something of its own
WroteOwn == \E k \in DOMAIN console : ~IsNotice(console[k])

\* C22 as stated: a call writes to the console if and only if it is error,
\* warn or info, or it is log, debug, step, inspect or a timer's completion
\* callback and isVerboseEnabled() answers true at that call.
C22_WritesIffEnabled ==
  (pc = "logged" /\ call.op \in AlwaysShown \cup VerboseGated) =>
    (console # << >> <=> (call.op \in AlwaysShown \/ verbose = "on"))

\* C22: whatever the answers of isVerboseEnabled() at the earlier calls, a
\* call writes its message if and only if it is error, warn or info, or it
\* is log, debug, step, inspect or a timer's completion callback and
\* isVerboseEnabled() answers true at that call; the one other write is the
\* console.error notice of the default check, made exactly when a gated
\* method asks it while the preferences cannot be read.
C22_MessageIffEnabled ==
  (pc = "logged" /\ call.op \in AlwaysShown \cup VerboseGated) =>
    /\ WroteOwn <=> (call.op \in AlwaysShown \/ verbose = "on")
    /\ (\E k \in DOMAIN console : IsNotice(console[k])) <=>
         /\ call.op \in VerboseGated
         /\ verbose = "unreadable"
         /\ loggers[call.on].isVerboseEnabled = "defaultVerboseCheck"

\* A timer taken while verbose logging was off completes after it was
\* turned on, and writes
C22_Witness ==
  /\ pc = "logged"
  /\ call.op = "done"
  /\ verbose = "on"
  /\ Len(console) = 1
  /\ console[1].method = "log"
  /\ console[1].argv[1] = Str(<<"j","o","b"," ","c","o","m","p","l","e","t","e","d"," ","i","n"," ","1",".","5","0","m","s">>)

\* The console call that carries the message of the call
LastWrite == console[Len(console)]

\* The processed message and the processed arguments it carries, after the
\* label
PassedMessage == LastWrite.argv[Len(LastWrite.argv) - Len(args)]
PassedArgs ==
  SubSeq(LastWrite.argv, Len(LastWrite.argv) - Len(args) + 1, Len(LastWrite.argv))

\* The message of the call as formatMessage renders it for its Logger
FormattedMessage ==
  formatMessage(loggers[call.on], call.message, call.do.levelColor, T_now, NoContext)

\* C23: a Logger made with enableRedaction unset or true redacts and one
\* made with enableRedaction = false does not: with redaction on, log, error
\* and warn pass redactString(formatted message) and sanitizeArgs(args) to
\* the console; with redaction off they pass the formatted message and the
\* caller's argument values unchanged.
C23_RedactionToggle ==
  /\ (pc = "made" /\ call.op = "new") =>
       loggers[ret].enableRedaction =
         (IF call.config.enableRedaction = "false" THEN "false" ELSE "true")
  /\ (pc = "made" /\ call.op = "getInstance") =>
       loggers[ret].enableRedaction = "true"
  /\ (pc = "logged" /\ call.op \in {"log", "error", "warn"} /\ WroteOwn) =>
       /\ Len(LastWrite.argv) > Len(args)
       /\ loggers[call.on].enableRedaction \in {"true", "false"}
       /\ loggers[call.on].enableRedaction = "true" =>
            /\ PassedMessage = Str(redactString(FormattedMessage))
            /\ PassedArgs = sanitizeArgs(args, heap, stack).v
       /\ loggers[call.on].enableRedaction = "false" =>
            /\ PassedMessage = Str(FormattedMessage)
            /\ PassedArgs = args

\* error("pwd=abc", {pwd: "abc"}) on a Logger made without enableRedaction
C23_Witness ==
  /\ pc = "logged"
  /\ call.op = "error"
  /\ call.message = <<"p","w","d","=","a","b","c">>
  /\ heap = <<Node("object", <<<<"p","w","d">>>>, <<Str(<<"a","b","c">>)>>)>>
  /\ console = <<Write("error",
                   <<Str(<<"[","E","R","R","O","R","]">>),
                     Str(<<"p","w","d","=","*","*","*">>),
                     Obj(<<<<"p","w","d">>>>, <<Str(<<"*","*","*">>)>>)>>)>>

\* C24: child(p) returns a new Logger whose prefix is the parent's prefix,
\* a space and p when the parent's prefix is not empty, and p otherwise (so
\* chained calls nest the prefixes in call order); the child has the
\* parent's isVerboseEnabled and enableRedaction settings; the Loggers that
\* existed, the parent among them, are as they were before the call.
C24_ChildPrefix ==
  [][(pc = "idle" /\ pc' = "made" /\ call'.op = "child") =>
       /\ call'.on = ret
       /\ ret' = Len(loggers) + 1
       /\ DOMAIN loggers' = 1..ret'
       /\ loggers'[ret'].prefix =
            (IF Len(loggers[ret].prefix) > 0
             THEN loggers[ret].prefix \o <<" ">> \o call'.prefix
             ELSE call'.prefix)
       /\ loggers'[ret'].isVerboseEnabled = loggers[ret].isVerboseEnabled
       /\ loggers'[ret'].enableRedaction = loggers[ret].enableRedaction
       /\ \A i \in DOMAIN loggers : loggers'[i] = loggers[i]]_vars

\* logger.child("auth:").child("[A]")
C24_Witness ==
  /\ pc = "made"
  /\ call.op = "child"
  /\ call.on = 2
  /\ loggers[1].prefix = << >>
  /\ loggers[2].prefix = <<"a","u","t","h",":">>
  /\ loggers[3].prefix = <<"a","u","t","h",":"," ","[","A","]">>

\* C25: every call of Logger.getInstance() returns the same Logger, which
\* is constructed by the first call and never again; a Logger made by
\* new Logger(config) or child() never takes its place.
C25_Singleton ==
  [][/\ (pc = "idle" /\ pc' = "made" /\ call'.op = "getInstance") =>
          /\ ret' = instance'
          /\ instance' \in DOMAIN loggers'
          /\ IF instance = 0
             THEN Len(loggers') = Len(loggers) + 1 /\ instance' = Len(loggers')
             ELSE loggers' = loggers
     /\ instance # 0 =>
          /\ instance' = instance
          /\ loggers'[instance] = loggers[instance]
     /\ instance' # instance => call'.op = "getInstance"]_vars

\* getInstance() called again after new Logger(config) and child(): the
\* first Logger is returned
C25_Witness ==
  /\ pc = "made"
  /\ call.op = "getInstance"
  /\ Len(loggers) = 3
  /\ instance = 1
  /\ ret = 1

\* The calls that pass a processed message to the console
MessageCalls == {"log", "error", "warn", "info", "debug", "step", "done"}

\* C29: for a Logger with a non-empty prefix p, redaction on and colors off,
\* every message passed to the console is p, one space and the redacted
\* message: redactString(p + " " + m) = p + " " + redactString(m).
C29_PrefixVerbatim ==
  ( /\ pc = "logged" /\ call.op \in MessageCalls /\ WroteOwn
    /\ loggers[call.on].prefix # << >>
    /\ loggers[call.on].enableRedaction = "true"
    /\ loggers[call.on].colorize = "false" ) =>
    PassedMessage =
      Str(loggers[call.on].prefix \o <<" ">> \o redactString(call.message))

\* The ANSI sequences of a string: where a reset code starts, and where any
\* other escape sequence starts
AnsiReset == <<ESC, "[", "0", "m">>
ResetsOf(s) == {i \in DOMAIN s : IsAt(s, i, AnsiReset)}
ColorsOf(s) == {i \in DOMAIN s : s[i] = ESC /\ ~IsAt(s, i, AnsiReset)}

\* Every colored segment of s ends with a reset code: each color code is
\* followed by a reset code before the next color code or the end
ColorsBalanced(s) ==
  \A i \in ColorsOf(s) :
    \E j \in ResetsOf(s) :
      j > i /\ \A k \in ColorsOf(s) : ~(i < k /\ k < j)

\* C30: when colorize and enableRedaction are both on, every message string
\* that log, error, warn, info or debug passes to the console still ends
\* each colored segment with the reset code colorize appended, and holds the
\* escape sequences of the colored message unchanged.
C30_ColorsStayBalanced ==
  ( /\ pc = "logged" /\ call.op \in {"log", "error", "warn", "info", "debug"}
    /\ WroteOwn
    /\ loggers[call.on].colorize = "true"
    /\ loggers[call.on].enableRedaction = "true" ) =>
    /\ ColorsBalanced(PassedMessage.s)
    /\ Cardinality(ResetsOf(PassedMessage.s)) = Cardinality(ResetsOf(FormattedMessage))
    /\ Cardinality(ColorsOf(PassedMessage.s)) = Cardinality(ColorsOf(FormattedMessage))

====
